---- MODULE Spec2Model ----
(***************************************************************************)
(* Model of the notebooks' similarity and nearest-anchor classification    *)
(* logic:                                                                  *)
(*   - classify_policy_stance.ipynb: get_embedding, classify_text and the  *)
(*     loop that classifies the `unlabeled` texts and prints each result;  *)
(*   - the embeddings demo (unnamed/part_000) and                          *)
(*     semantic_drift_detector.ipynb: cosine_similarity(embeddings) and    *)
(*     cosine_similarity(more_embeddings, embeddings);                     *)
(*   - semantic_drift_detector.ipynb: PCA(n_components=2).fit_transform;   *)
(*   - the fine-tuning script (unnamed/part_001): compute_metrics.         *)
(*                                                                         *)
(* Numbers.  The code computes in floating point.  The model computes the  *)
(* same expressions exactly, over rationals <<n, d>> in lowest terms with  *)
(* d > 0; <<0, 0>> stands for NaN (the value of np.mean of an empty list). *)
(* Embeddings are integer vectors whose Euclidean norm is an integer, so   *)
(* that every normalised component is rational.  Rounding error is not     *)
(* modelled.                                                               *)
(*                                                                         *)
(* Calls.  Every call returns a record [err, val]: err = NoError and val   *)
(* the returned value, or err the exception raised and val = <<>>.         *)
(***************************************************************************)
EXTENDS Integers, Sequences, FiniteSets, TLC

VARIABLES
    anchor_examples,   \* classify notebook: the dict label -> examples, as the
                       \* sequence of its items in insertion order
    unlabeled,         \* classify notebook: the list of texts to classify
    i,                 \* classify notebook: position of the for loop in unlabeled
    printed,           \* classify notebook: what the loop has printed so far
    embeddings,        \* similarity notebooks: model.encode(sentences)
    more_embeddings,   \* similarity notebooks: model.encode(more_sentences)
    similarity_matrix, \* similarity notebooks: cosine_similarity(embeddings)
    more_similarity,   \* similarity notebooks: cosine_similarity(more_embeddings, embeddings)
    pc,                \* the cell / statement the kernel is at
    raised,            \* the exception that ended the run, or NoError
    history,           \* classify notebook: output and exception of the earlier
                       \* runs of the loop cell, oldest first
    calls,             \* classify notebook: the frames of the classify_text calls
                       \* in progress, one per thread (locals and return value)
    reduced,           \* drift detector: pca.fit_transform(embeddings)
    eval_pred,         \* fine-tuning script: the pair (predictions, labels)
                       \* handed to compute_metrics
    metrics            \* fine-tuning script: what compute_metrics returned

vars == <<anchor_examples, unlabeled, i, printed, embeddings, more_embeddings,
          similarity_matrix, more_similarity, pc, raised, history, calls, reduced,
          eval_pred, metrics>>

\* the variables of the threads, the PCA cell and the fine-tuning script
others == <<calls, reduced, eval_pred, metrics>>

-----------------------------------------------------------------------------
(* Bounds of the model *)

MaxLabels == 2   \* labels in anchor_examples
MaxBatch == 2    \* texts in unlabeled
MaxTexts == 4    \* texts embedded in one run: examples of all labels + unlabeled
MaxRows == 2     \* rows of an embeddings array
MaxRuns == 2     \* runs of the loop cell
MaxSentences == 3  \* rows of the embeddings handed to PCA
MaxEval == 2     \* rows of the evaluation set handed to compute_metrics

-----------------------------------------------------------------------------
(* Exceptions *)

NoError == "none"
\* max() of an empty dict: "ValueError: max() arg is an empty sequence"
ValueErrorEmptyMax == "ValueError: max() arg is an empty sequence"
\* sklearn check_pairwise_arrays: X.shape[1] != Y.shape[1]
ValueErrorDimension == "ValueError: Incompatible dimension for X and Y matrices"
\* sklearn check_array: an array with no rows
ValueErrorNoSamples == "ValueError: Found array with 0 sample(s)"
\* sklearn PCA._fit_full: n_components > min(n_samples, n_features)
ValueErrorComponents == "ValueError: n_components must be between 0 and min(n_samples, n_features)"
\* the embedding model rejects its input
EncodeError == "TypeError: encode"

Ok(v) == [err |-> NoError, val |-> v]
Raise(e) == [err |-> e, val |-> <<>>]

-----------------------------------------------------------------------------
(* Exact arithmetic standing for the code's floats *)

Abs(n) == IF n < 0 THEN -n ELSE n

RECURSIVE GCD(_, _)
GCD(a, b) == IF b = 0 THEN a ELSE GCD(b, a % b)

NaN == <<0, 0>>
IsNaN(p) == p[2] = 0

\* the rational n/d in lowest terms, d # 0
Frac(n, d) ==
    LET g == GCD(Abs(n), Abs(d))
        s == IF d < 0 THEN -1 ELSE 1
    IN  <<(s * n) \div g, (s * d) \div g>>

Zero == <<0, 1>>
One == <<1, 1>>

FracAdd(p, q) ==
    IF IsNaN(p) \/ IsNaN(q) THEN NaN
    ELSE Frac(p[1] * q[2] + q[1] * p[2], p[2] * q[2])

FracMul(p, q) ==
    IF IsNaN(p) \/ IsNaN(q) THEN NaN
    ELSE Frac(p[1] * q[1], p[2] * q[2])

\* p / n for an integer n; x / 0 of np.mean is NaN
FracDivInt(p, n) ==
    IF IsNaN(p) \/ n = 0 THEN NaN ELSE Frac(p[1], p[2] * n)

\* Python's float comparison a > b: False as soon as one side is NaN
FracGT(p, q) == ~IsNaN(p) /\ ~IsNaN(q) /\ p[1] * q[2] > q[1] * p[2]

\* Python's float comparison a == b: False as soon as one side is NaN
FracEq(p, q) == ~IsNaN(p) /\ ~IsNaN(q) /\ p[1] * q[2] = q[1] * p[2]

FracGE(p, q) == FracGT(p, q) \/ FracEq(p, q)

RECURSIVE FracSum(_)
FracSum(s) == IF s = <<>> THEN Zero ELSE FracAdd(s[1], FracSum(Tail(s)))

\* np.sqrt of an integer that is a perfect square
ISqrt(n) == CHOOSE r \in 0..n : r * r = n

RECURSIVE SumSq(_)
SumSq(v) == IF v = <<>> THEN 0 ELSE v[1] * v[1] + SumSq(Tail(v))

\* faulty variant of np_mean: the sum is not divided by the count
np_mean_sum(sims) == IF Len(sims) = 0 THEN NaN ELSE FracSum(sims)

\* np.mean(sims): sum / count, NaN for the empty list
np_mean(sims) == FracDivInt(FracSum(sims), Len(sims))

-----------------------------------------------------------------------------
(* sklearn.metrics.pairwise.cosine_similarity, as the notebooks call it.    *)
(* An array is a non-ragged sequence of rows (model.encode returns a 2-D    *)
(* ndarray).                                                                *)

\* faulty variant of NormalizeRow: the row is not divided by its norm
NormalizeRowNoDiv(v) == [k \in 1..Len(v) |-> Frac(v[k], 1)]

\* faulty variant of NormalizeRow: the row is divided by its largest
\* absolute component instead of its L2 norm
NormalizeRowMax(v) ==
    LET n == CHOOSE a \in {Abs(v[k]) : k \in 1..Len(v)} :
                 \A k \in 1..Len(v) : a >= Abs(v[k])
        m == IF n = 0 THEN 1 ELSE n
    IN  [k \in 1..Len(v) |-> Frac(v[k], m)]

\* faulty variant of NormalizeRow: the norm is increased before the division
NormalizeRowEps(v) ==
    LET n == ISqrt(SumSq(v))
    IN  [k \in 1..Len(v) |-> Frac(v[k], n + 1)]

\* sklearn normalize(X): each row divided by its L2 norm, a zero norm
\* replaced by 1 (so a zero row stays a zero row)
NormalizeRow(v) ==
    LET n == ISqrt(SumSq(v))
        m == IF n = 0 THEN 1 ELSE n
    IN  [k \in 1..Len(v) |-> Frac(v[k], m)]

normalize(X) == [r \in 1..Len(X) |-> NormalizeRow(X[r])]

\* sklearn check_array: at least one sample is required
check_array(X) == IF Len(X) = 0 THEN ValueErrorNoSamples ELSE NoError

\* sklearn check_pairwise_arrays: both arrays are checked, then their
\* numbers of columns are compared
check_pairwise_arrays(X, Y) ==
    IF check_array(X) # NoError THEN check_array(X)
    ELSE IF check_array(Y) # NoError THEN check_array(Y)
    ELSE IF Len(X[1]) # Len(Y[1]) THEN ValueErrorDimension
    ELSE NoError

\* Y.T of a non-empty array
Transpose(Y) == [k \in 1..Len(Y[1]) |-> [c \in 1..Len(Y) |-> Y[c][k]]]

RECURSIVE DotFrom(_, _, _, _)
\* sum over k >= from of A[r][k] * BT[k][c]
DotFrom(rowA, BT, c, from) ==
    IF from > Len(rowA) THEN Zero
    ELSE FracAdd(FracMul(rowA[from], BT[from][c]), DotFrom(rowA, BT, c, from + 1))

\* faulty variant of safe_sparse_dot: the last row of a product of several
\* rows is left out
safe_sparse_dot_partial(A, BT) ==
    [r \in 1..(IF Len(A) > 1 THEN Len(A) - 1 ELSE Len(A)) |->
        [c \in 1..Len(BT[1]) |-> DotFrom(A[r], BT, c, 1)]]

\* safe_sparse_dot(A, BT): the matrix product A @ BT
safe_sparse_dot(A, BT) ==
    [r \in 1..Len(A) |-> [c \in 1..Len(BT[1]) |-> DotFrom(A[r], BT, c, 1)]]

RECURSIVE DotZip(_, _)
\* sum(x * y for x, y in zip(a, b)): stops at the end of the shorter vector
DotZip(a, b) ==
    IF a = <<>> \/ b = <<>> THEN Zero
    ELSE FracAdd(FracMul(a[1], b[1]), DotZip(Tail(a), Tail(b)))

\* faulty variant of cosine_similarity: the numbers of columns are not
\* compared and each dot product runs over the common prefix
cosine_similarity_zip(X, Y) ==
    IF check_array(X) # NoError THEN Raise(check_array(X))
    ELSE IF check_array(Y) # NoError THEN Raise(check_array(Y))
    ELSE Ok([r \in 1..Len(X) |->
                [c \in 1..Len(Y) |-> DotZip(NormalizeRow(X[r]), NormalizeRow(Y[c]))]])

\* faulty variant of cosine_similarity: the arguments of the product are
\* exchanged
cosine_similarity_swapped(X, Y) ==
    LET e == check_pairwise_arrays(X, Y)
    IN  IF e # NoError THEN Raise(e)
        ELSE Ok(safe_sparse_dot(normalize(Y), Transpose(normalize(X))))

\* faulty variant of cosine_similarity: only the first argument is
\* normalised
cosine_similarity_halfnorm(X, Y) ==
    LET e == check_pairwise_arrays(X, Y)
    IN  IF e # NoError THEN Raise(e)
        ELSE Ok(safe_sparse_dot(normalize(X), Transpose([r \in 1..Len(Y) |-> NormalizeRowNoDiv(Y[r])])))

\* cosine_similarity(X, Y); cosine_similarity(X) is cosine_similarity(X, X)
cosine_similarity(X, Y) ==
    LET e == check_pairwise_arrays(X, Y)
    IN  IF e # NoError THEN Raise(e)
        ELSE Ok(safe_sparse_dot(normalize(X), Transpose(normalize(Y))))

-----------------------------------------------------------------------------
(* classify_policy_stance.ipynb *)

\* The texts of the model and what the embedding model returns for them.
\* NoneText is an input the model rejects (encode raises); it occurs among
\* the texts to classify.  "xx" and "cc" have embeddings that are positive
\* multiples of those of "x" and "c"; they occur in the two-label scenario.
NoneText == "None"
ExampleTexts == {"zero", "x", "c"}
QueryTexts == ExampleTexts \cup {NoneText}
ScenarioTexts == {"x", "xx", "c", "cc"}
LabelNames == {"Supportive", "Neutral", "Opposed"}

model_encode(text) ==
    CASE text = "zero" -> Ok(<<0, 0>>)
      [] text = "x" -> Ok(<<1, 0>>)
      [] text = "c" -> Ok(<<-3, 4>>)
      [] text = "xx" -> Ok(<<2, 0>>)
      [] text = "cc" -> Ok(<<-6, 8>>)
      [] OTHER -> Raise(EncodeError)

\* get_embedding(text): model.encode([text])[0]
\* faulty variant of get_embedding: an exception of the model is caught and
\* a zero vector returned in its place
get_embedding_default(text) ==
    IF model_encode(text).err # NoError THEN Ok(<<0, 0>>) ELSE model_encode(text)

get_embedding(text) == model_encode(text)

RECURSIVE SimsDot(_, _)
\* faulty variant of Sims: the dot product of the two vectors, which are not
\* normalised
SimsDot(text_vec, examples) ==
    IF examples = <<>> THEN Ok(<<>>)
    ELSE LET ex == get_embedding(examples[1]) IN
         IF ex.err # NoError THEN Raise(ex.err)
         ELSE LET rest == SimsDot(text_vec, Tail(examples)) IN
              IF rest.err # NoError THEN Raise(rest.err)
              ELSE Ok(<<safe_sparse_dot(<<NormalizeRowNoDiv(text_vec)>>,
                                        Transpose(<<NormalizeRowNoDiv(ex.val)>>))[1][1]>>
                      \o rest.val)

RECURSIVE Sims(_, _)
\* [cosine_similarity([text_vec], [get_embedding(ex)])[0][0] for ex in examples]
Sims(text_vec, examples) ==
    IF examples = <<>> THEN Ok(<<>>)
    ELSE LET ex == get_embedding(examples[1]) IN
         IF ex.err # NoError THEN Raise(ex.err)
         ELSE LET cs == cosine_similarity(<<text_vec>>, <<ex.val>>) IN
              IF cs.err # NoError THEN Raise(cs.err)
              ELSE LET rest == Sims(text_vec, Tail(examples)) IN
                   IF rest.err # NoError THEN Raise(rest.err)
                   ELSE Ok(<<cs.val[1][1]>> \o rest.val)

\* A dict is the sequence of its items <<key, value>> in insertion order.
DictKeys(d) == [k \in 1..Len(d) |-> d[k][1]]
DictHas(d, key) == \E k \in 1..Len(d) : d[k][1] = key
DictGet(d, key) == d[CHOOSE k \in 1..Len(d) : d[k][1] = key][2]
\* d[key] = value: an existing key keeps its position
DictSet(d, key, value) ==
    IF DictHas(d, key)
    THEN [k \in 1..Len(d) |-> IF d[k][1] = key THEN <<key, value>> ELSE d[k]]
    ELSE Append(d, <<key, value>>)

RECURSIVE ScoresLoopOnlyLast(_, _, _)
\* faulty variant of ScoresLoop: `scores = {}` sits inside the loop, so that
\* only the last label keeps its score
ScoresLoopOnlyLast(text_vec, items, scores) ==
    IF items = <<>> THEN Ok(scores)
    ELSE LET sims == Sims(text_vec, items[1][2]) IN
         IF sims.err # NoError THEN Raise(sims.err)
         ELSE ScoresLoopOnlyLast(text_vec, Tail(items),
                                 DictSet(<<>>, items[1][1], np_mean(sims.val)))

RECURSIVE ScoresLoop(_, _, _)
\* for label, examples in anchors.items(): scores[label] = np.mean(sims)
ScoresLoop(text_vec, items, scores) ==
    IF items = <<>> THEN Ok(scores)
    ELSE LET sims == Sims(text_vec, items[1][2]) IN
         IF sims.err # NoError THEN Raise(sims.err)
         ELSE ScoresLoop(text_vec, Tail(items),
                         DictSet(scores, items[1][1], np_mean(sims.val)))

RECURSIVE MaxFromLast(_, _, _)
\* faulty variant of MaxFrom: a later key replaces the current one also when
\* its value is equal
MaxFromLast(keys, d, best) ==
    IF keys = <<>> THEN best
    ELSE MaxFromLast(Tail(keys), d,
                     IF FracGE(DictGet(d, keys[1]), DictGet(d, best)) THEN keys[1] ELSE best)

RECURSIVE MaxFrom(_, _, _)
\* the scan of max(): a later key replaces the current one only if its value
\* compares strictly greater
MaxFrom(keys, d, best) ==
    IF keys = <<>> THEN best
    ELSE MaxFrom(Tail(keys), d,
                 IF FracGT(DictGet(d, keys[1]), DictGet(d, best)) THEN keys[1] ELSE best)

\* faulty variant of PyMax: max(scores, key=scores.get, default="Neutral")
PyMaxDefault(d) ==
    IF d = <<>> THEN Ok("Neutral")
    ELSE Ok(MaxFrom(Tail(DictKeys(d)), d, DictKeys(d)[1]))

\* faulty variant of PyMax: a best score that is not positive is answered
\* with "Neutral"
PyMaxThreshold(d) ==
    IF d = <<>> THEN Raise(ValueErrorEmptyMax)
    ELSE LET best == MaxFrom(Tail(DictKeys(d)), d, DictKeys(d)[1]) IN
         IF FracGT(DictGet(d, best), Zero) THEN Ok(best) ELSE Ok("Neutral")

\* faulty variant of PyMax: a NaN among the values makes the result "nan"
PyMaxNaN(d) ==
    IF d = <<>> THEN Raise(ValueErrorEmptyMax)
    ELSE IF \E k \in 1..Len(d) : IsNaN(d[k][2]) THEN Ok("nan")
    ELSE Ok(MaxFrom(Tail(DictKeys(d)), d, DictKeys(d)[1]))

\* max(scores, key=scores.get)
PyMax(d) ==
    IF d = <<>> THEN Raise(ValueErrorEmptyMax)
    ELSE Ok(MaxFrom(Tail(DictKeys(d)), d, DictKeys(d)[1]))

\* classify_text(text, anchors): returns the pair (label, scores)
classify_text(text, anchors) ==
    LET text_vec == get_embedding(text) IN
    IF text_vec.err # NoError THEN Raise(text_vec.err)
    ELSE LET scores == ScoresLoop(text_vec.val, anchors, <<>>) IN
         IF scores.err # NoError THEN Raise(scores.err)
         ELSE LET label == PyMax(scores.val) IN
              IF label.err # NoError THEN Raise(label.err)
              ELSE Ok(<<label.val, scores.val>>)

\* faulty variant of Print_: the newest line is put first
PrintFirst(out, text, label, scores) ==
    <<[text |-> text, label |-> label, scores |-> scores]>> \o out

\* print(f"Text: '{text}' -> Predicted: {label} -> Scores: {scores}")
Print_(out, text, label, scores) ==
    Append(out, [text |-> text, label |-> label, scores |-> scores])

-----------------------------------------------------------------------------
(* Inputs *)

Min(a, b) == IF a < b THEN a ELSE b

\* the sequences over S of length at most n
SeqsUpTo(S, n) == UNION {[1..k -> S] : k \in 0..n}

RECURSIVE TotalLen(_)
TotalLen(lists) == IF lists = <<>> THEN 0 ELSE Len(lists[1]) + TotalLen(Tail(lists))

RECURSIVE ExampleLists(_, _)
\* the sequences of n example lists holding at most budget texts together
ExampleLists(n, budget) ==
    IF n = 0 THEN {<<>>}
    ELSE UNION {{<<e>> \o rest : e \in [1..k -> ExampleTexts],
                                  rest \in ExampleLists(n - 1, budget - k)} :
                k \in 0..budget}

\* a dict has each key once
LabelSeqs ==
    {ls \in SeqsUpTo(LabelNames, MaxLabels) :
        \A a, b \in 1..Len(ls) : ls[a] = ls[b] => a = b}

AnchorTexts(d) == TotalLen([k \in 1..Len(d) |-> d[k][2]])

Vecs1 == {<<0>>, <<1>>, <<-2>>}
Vecs2 == {<<0, 0>>, <<1, 0>>, <<0, 1>>, <<-3, 4>>, <<3, -4>>}
\* the 2-D arrays of at most MaxRows rows, of 1 or 2 columns
Arrays == SeqsUpTo(Vecs1, MaxRows) \cup SeqsUpTo(Vecs2, MaxRows)

-----------------------------------------------------------------------------
(* classify_policy_stance.ipynb: the cell that classifies `unlabeled` *)

Init ==
    /\ \E ls \in LabelSeqs : \E el \in ExampleLists(Len(ls), MaxTexts) :
          anchor_examples = [k \in 1..Len(ls) |-> <<ls[k], el[k]>>]
    /\ unlabeled \in SeqsUpTo(QueryTexts, Min(MaxBatch, MaxTexts - AnchorTexts(anchor_examples)))
    /\ i = 1
    /\ printed = <<>>
    /\ embeddings = <<>>
    /\ more_embeddings = <<>>
    /\ similarity_matrix = <<>>
    /\ more_similarity = <<>>
    /\ pc = "loop"
    /\ raised = NoError
    /\ history = <<>>
    /\ calls = <<>>
    /\ reduced = <<>>
    /\ eval_pred = <<>>
    /\ metrics = <<>>

\* the text whose embedding a one-entry cache that is never refreshed on a
\* new text would hand to the next call
StaleText ==
    IF i > 1 THEN unlabeled[i - 1]
    ELSE IF history # <<>> THEN unlabeled[Len(unlabeled)]
    ELSE unlabeled[i]

\* faulty variant of LoopBody: the classification is computed from what the
\* previous call left behind, not from the text of this call
LoopBodyStale ==
    /\ pc = "loop"
    /\ i <= Len(unlabeled)
    /\ \E r \in {classify_text(StaleText, anchor_examples)} :
       IF r.err # NoError
       THEN /\ pc' = "raised"
            /\ raised' = r.err
            /\ UNCHANGED <<i, printed>>
       ELSE /\ printed' = Print_(printed, unlabeled[i], r.val[1], r.val[2])
            /\ i' = i + 1
            /\ UNCHANGED <<pc, raised>>
    /\ UNCHANGED <<anchor_examples, unlabeled, embeddings, more_embeddings,
                   similarity_matrix, more_similarity, history, others>>

\* faulty variant of LoopBody: the classified text is added to the examples
\* of the label it got (a learned anchor)
LoopBodyLearns ==
    /\ pc = "loop"
    /\ i <= Len(unlabeled)
    /\ \E r \in {classify_text(unlabeled[i], anchor_examples)} :
       IF r.err # NoError
       THEN /\ pc' = "raised"
            /\ raised' = r.err
            /\ UNCHANGED <<i, printed, anchor_examples>>
       ELSE /\ printed' = Print_(printed, unlabeled[i], r.val[1], r.val[2])
            /\ i' = i + 1
            /\ anchor_examples' =
                  DictSet(anchor_examples, r.val[1],
                          Append(DictGet(anchor_examples, r.val[1]), unlabeled[i]))
            /\ UNCHANGED <<pc, raised>>
    /\ UNCHANGED <<unlabeled, embeddings, more_embeddings,
                   similarity_matrix, more_similarity, history, others>>

\* one iteration of `for text in unlabeled`: classify_text, then print; an
\* exception of classify_text ends the cell
LoopBody ==
    /\ pc = "loop"
    /\ i <= Len(unlabeled)
    /\ \E r \in {classify_text(unlabeled[i], anchor_examples)} :
       IF r.err # NoError
       THEN /\ pc' = "raised"
            /\ raised' = r.err
            /\ UNCHANGED <<i, printed>>
       ELSE /\ printed' = Print_(printed, unlabeled[i], r.val[1], r.val[2])
            /\ i' = i + 1
            /\ UNCHANGED <<pc, raised>>
    /\ UNCHANGED <<anchor_examples, unlabeled, embeddings, more_embeddings,
                   similarity_matrix, more_similarity, history, others>>

\* the loop is exhausted
LoopEnd ==
    /\ pc = "loop"
    /\ i > Len(unlabeled)
    /\ pc' = "done"
    /\ UNCHANGED <<anchor_examples, unlabeled, i, printed, embeddings, more_embeddings,
                   similarity_matrix, more_similarity, raised, history, others>>

Next == LoopBody \/ LoopEnd

Spec == Init /\ [][Next]_vars

-----------------------------------------------------------------------------
(* classify_policy_stance.ipynb: the loop cell run again over the same       *)
(* anchor_examples and unlabeled                                             *)

\* as Init, with room for a full batch next to the examples
InitRerun ==
    /\ \E ls \in LabelSeqs : \E el \in ExampleLists(Len(ls), MaxTexts - MaxBatch) :
          anchor_examples = [k \in 1..Len(ls) |-> <<ls[k], el[k]>>]
    /\ unlabeled \in SeqsUpTo(QueryTexts, MaxBatch)
    /\ i = 1
    /\ printed = <<>>
    /\ embeddings = <<>>
    /\ more_embeddings = <<>>
    /\ similarity_matrix = <<>>
    /\ more_similarity = <<>>
    /\ pc = "loop"
    /\ raised = NoError
    /\ history = <<>>
    /\ calls = <<>>
    /\ reduced = <<>>
    /\ eval_pred = <<>>
    /\ metrics = <<>>

\* faulty variant of RerunCell: the position of the first run's iterator is
\* kept by the second run
RerunCellKeepIterator ==
    /\ pc \in {"done", "raised"}
    /\ Len(history) + 1 < MaxRuns
    /\ history' = Append(history, [printed |-> printed, raised |-> raised])
    /\ printed' = <<>>
    /\ raised' = NoError
    /\ pc' = "loop"
    /\ UNCHANGED <<anchor_examples, unlabeled, i, embeddings, more_embeddings,
                   similarity_matrix, more_similarity, others>>

\* the cell is run again: `for text in unlabeled` makes a new iterator, the
\* cell's output starts empty; what the finished run left is kept in history
RerunCell ==
    /\ pc \in {"done", "raised"}
    /\ Len(history) + 1 < MaxRuns
    /\ history' = Append(history, [printed |-> printed, raised |-> raised])
    /\ i' = 1
    /\ printed' = <<>>
    /\ raised' = NoError
    /\ pc' = "loop"
    /\ UNCHANGED <<anchor_examples, unlabeled, embeddings, more_embeddings,
                   similarity_matrix, more_similarity, others>>

NextRerun == LoopBody \/ LoopEnd \/ RerunCell

SpecRerun == InitRerun /\ [][NextRerun]_vars

-----------------------------------------------------------------------------
(* classify_policy_stance.ipynb: the loop over anchors of the shape           *)
(* {"Supportive": [v1], "Opposed": [v2]} with non-zero v1 and v2               *)

InitScenario ==
    /\ \E t1 \in ScenarioTexts : \E t2 \in ScenarioTexts :
          anchor_examples = <<<<"Supportive", <<t1>>>>, <<"Opposed", <<t2>>>>>>
    /\ unlabeled \in SeqsUpTo(ScenarioTexts, MaxBatch)
    /\ i = 1
    /\ printed = <<>>
    /\ embeddings = <<>>
    /\ more_embeddings = <<>>
    /\ similarity_matrix = <<>>
    /\ more_similarity = <<>>
    /\ pc = "loop"
    /\ raised = NoError
    /\ history = <<>>
    /\ calls = <<>>
    /\ reduced = <<>>
    /\ eval_pred = <<>>
    /\ metrics = <<>>

SpecScenario == InitScenario /\ [][Next]_vars

-----------------------------------------------------------------------------
(* classify_policy_stance.ipynb: the loop over two labels of one example     *)
(* each, where the embedding model may reject an example as well as a text   *)

InitProvider ==
    /\ \E t1 \in QueryTexts : \E t2 \in QueryTexts :
          anchor_examples = <<<<"Supportive", <<t1>>>>, <<"Opposed", <<t2>>>>>>
    /\ unlabeled \in SeqsUpTo(QueryTexts, MaxBatch)
    /\ i = 1
    /\ printed = <<>>
    /\ embeddings = <<>>
    /\ more_embeddings = <<>>
    /\ similarity_matrix = <<>>
    /\ more_similarity = <<>>
    /\ pc = "loop"
    /\ raised = NoError
    /\ history = <<>>
    /\ calls = <<>>
    /\ reduced = <<>>
    /\ eval_pred = <<>>
    /\ metrics = <<>>

SpecProvider == InitProvider /\ [][Next]_vars

-----------------------------------------------------------------------------
(* classify_policy_stance.ipynb: classify_text called from two threads over  *)
(* the one anchor_examples.  text, text_vec and scores are locals of a call, *)
(* kept in its frame calls[t]; k is the position of `for label, examples in  *)
(* anchors.items()`.  A thread runs one statement at a time.                 *)

Threads == {"t1", "t2"}

Frame(text) ==
    [text |-> text, pc |-> "encode", text_vec |-> <<>>, scores |-> <<>>, k |-> 1,
     ret |-> <<>>]

InitConcurrent ==
    /\ \E ls \in LabelSeqs : \E el \in ExampleLists(Len(ls), MaxTexts - MaxBatch) :
          anchor_examples = [k \in 1..Len(ls) |-> <<ls[k], el[k]>>]
    /\ \E texts \in [Threads -> QueryTexts] :
          calls = [t \in Threads |-> Frame(texts[t])]
    /\ unlabeled = <<>>
    /\ i = 1
    /\ printed = <<>>
    /\ embeddings = <<>>
    /\ more_embeddings = <<>>
    /\ similarity_matrix = <<>>
    /\ more_similarity = <<>>
    /\ pc = "threads"
    /\ raised = NoError
    /\ history = <<>>
    /\ reduced = <<>>
    /\ eval_pred = <<>>
    /\ metrics = <<>>

\* text_vec = get_embedding(text); scores = {}
CallEncode(t) ==
    /\ pc = "threads"
    /\ calls[t].pc = "encode"
    /\ \E r \in {get_embedding(calls[t].text)} :
       IF r.err # NoError
       THEN calls' = [calls EXCEPT ![t].pc = "raised", ![t].ret = Raise(r.err)]
       ELSE calls' = [calls EXCEPT ![t].pc = "scores", ![t].text_vec = r.val,
                                   ![t].scores = <<>>]
    /\ UNCHANGED <<anchor_examples, unlabeled, i, printed, embeddings, more_embeddings,
                   similarity_matrix, more_similarity, pc, raised, history, reduced,
                   eval_pred, metrics>>

\* faulty variant of CallScore: scores is one dict shared by all calls
CallScoreShared(t) ==
    /\ pc = "threads"
    /\ calls[t].pc = "scores"
    /\ calls[t].k <= Len(anchor_examples)
    /\ \E r \in {Sims(calls[t].text_vec, anchor_examples[calls[t].k][2])} :
       IF r.err # NoError
       THEN calls' = [calls EXCEPT ![t].pc = "raised", ![t].ret = Raise(r.err)]
       ELSE calls' = [u \in Threads |->
                        [calls[u] EXCEPT
                            !.scores = DictSet(calls[u].scores,
                                               anchor_examples[calls[t].k][1],
                                               np_mean(r.val)),
                            !.k = IF u = t THEN calls[u].k + 1 ELSE calls[u].k]]
    /\ UNCHANGED <<anchor_examples, unlabeled, i, printed, embeddings, more_embeddings,
                   similarity_matrix, more_similarity, pc, raised, history, reduced,
                   eval_pred, metrics>>

\* one iteration of `for label, examples in anchors.items()`:
\* sims = [...]; scores[label] = np.mean(sims)
CallScore(t) ==
    /\ pc = "threads"
    /\ calls[t].pc = "scores"
    /\ calls[t].k <= Len(anchor_examples)
    /\ \E r \in {Sims(calls[t].text_vec, anchor_examples[calls[t].k][2])} :
       IF r.err # NoError
       THEN calls' = [calls EXCEPT ![t].pc = "raised", ![t].ret = Raise(r.err)]
       ELSE calls' = [calls EXCEPT
                        ![t].scores = DictSet(calls[t].scores,
                                              anchor_examples[calls[t].k][1],
                                              np_mean(r.val)),
                        ![t].k = calls[t].k + 1]
    /\ UNCHANGED <<anchor_examples, unlabeled, i, printed, embeddings, more_embeddings,
                   similarity_matrix, more_similarity, pc, raised, history, reduced,
                   eval_pred, metrics>>

\* return max(scores, key=scores.get), scores
CallReturn(t) ==
    /\ pc = "threads"
    /\ calls[t].pc = "scores"
    /\ calls[t].k > Len(anchor_examples)
    /\ \E r \in {PyMax(calls[t].scores)} :
       IF r.err # NoError
       THEN calls' = [calls EXCEPT ![t].pc = "raised", ![t].ret = Raise(r.err)]
       ELSE calls' = [calls EXCEPT ![t].pc = "returned",
                                   ![t].ret = Ok(<<r.val, calls[t].scores>>)]
    /\ UNCHANGED <<anchor_examples, unlabeled, i, printed, embeddings, more_embeddings,
                   similarity_matrix, more_similarity, pc, raised, history, reduced,
                   eval_pred, metrics>>

NextConcurrent == \E t \in Threads : CallEncode(t) \/ CallScore(t) \/ CallReturn(t)

SpecConcurrent == InitConcurrent /\ [][NextConcurrent]_vars

-----------------------------------------------------------------------------
(* The embeddings demo and the drift detector: the similarity cells *)

InitSimilarity ==
    /\ embeddings \in Arrays
    /\ more_embeddings \in Arrays
    /\ similarity_matrix = <<>>
    /\ more_similarity = <<>>
    /\ anchor_examples = <<>>
    /\ unlabeled = <<>>
    /\ i = 1
    /\ printed = <<>>
    /\ pc = "similarity_matrix"
    /\ raised = NoError
    /\ history = <<>>
    /\ calls = <<>>
    /\ reduced = <<>>
    /\ eval_pred = <<>>
    /\ metrics = <<>>

\* similarity_matrix = cosine_similarity(embeddings)
ComputeSimilarityMatrix ==
    /\ pc = "similarity_matrix"
    /\ \E r \in {cosine_similarity(embeddings, embeddings)} :
       IF r.err # NoError
       THEN /\ pc' = "raised"
            /\ raised' = r.err
            /\ UNCHANGED similarity_matrix
       ELSE /\ similarity_matrix' = r.val
            /\ pc' = "more_similarity"
            /\ UNCHANGED raised
    /\ UNCHANGED <<anchor_examples, unlabeled, i, printed, embeddings, more_embeddings,
                   more_similarity, history, others>>

\* more_similarity = cosine_similarity(more_embeddings, embeddings)
ComputeMoreSimilarity ==
    /\ pc = "more_similarity"
    /\ \E r \in {cosine_similarity(more_embeddings, embeddings)} :
       IF r.err # NoError
       THEN /\ pc' = "raised"
            /\ raised' = r.err
            /\ UNCHANGED more_similarity
       ELSE /\ more_similarity' = r.val
            /\ pc' = "done"
            /\ UNCHANGED raised
    /\ UNCHANGED <<anchor_examples, unlabeled, i, printed, embeddings, more_embeddings,
                   similarity_matrix, history, others>>

NextSimilarity == ComputeSimilarityMatrix \/ ComputeMoreSimilarity

SpecSimilarity == InitSimilarity /\ [][NextSimilarity]_vars

-----------------------------------------------------------------------------
(* semantic_drift_detector.ipynb: the PCA cell.                               *)
(* The principal axes of arbitrary data are irrational.  The model takes     *)
(* embeddings whose rows lie on one line through the origin, along a         *)
(* direction of integer norm: the first axis is then that direction, every   *)
(* coordinate of the projection is rational, and fit_transform below is      *)
(* exact for these arrays (and for these only).                              *)

\* PCA(n_components=2)
n_components == 2

FracNeg(p) == FracMul(Frac(-1, 1), p)

\* p / q, q # 0
FracDiv(p, q) == IF IsNaN(p) \/ IsNaN(q) THEN NaN ELSE Frac(p[1] * q[2], p[2] * q[1])

\* np.sqrt of a rational >= 0 whose numerator and denominator are squares
FracSqrt(p) == <<ISqrt(p[1]), ISqrt(p[2])>>

FracDot(a, b) == FracSum([k \in 1..Len(a) |-> FracMul(a[k], b[k])])

\* self.mean_ = np.mean(X, axis=0)
ColumnMeans(X) ==
    [c \in 1..Len(X[1]) |-> np_mean([r \in 1..Len(X) |-> Frac(X[r][c], 1)])]

\* X -= self.mean_
Center(X) ==
    [r \in 1..Len(X) |->
        [c \in 1..Len(X[1]) |-> FracAdd(Frac(X[r][c], 1), FracNeg(ColumnMeans(X)[c]))]]

IsZeroRow(v) == \A c \in 1..Len(v) : v[c] = Zero

\* the right singular vectors of centred rows Xc that lie on one line: the
\* unit vector of the line with the sign s that svd_flip gives it (the sign
\* convention differs between sklearn versions), then the perpendicular;
\* the unit axes for rows that are all zero
Components(Xc, s) ==
    IF \A r \in 1..Len(Xc) : IsZeroRow(Xc[r])
    THEN [c \in 1..Len(Xc[1]) |-> [k \in 1..Len(Xc[1]) |-> IF k = c THEN One ELSE Zero]]
    ELSE LET r0 == CHOOSE r \in 1..Len(Xc) :
                       /\ ~IsZeroRow(Xc[r])
                       /\ \A q \in 1..(r - 1) : IsZeroRow(Xc[q])
             norm == FracSqrt(FracDot(Xc[r0], Xc[r0]))
             v == [k \in 1..Len(Xc[1]) |-> FracMul(Frac(s, 1), FracDiv(Xc[r0][k], norm))]
         IN  IF Len(v) = 1 THEN <<v>> ELSE <<v, <<FracNeg(v[2]), v[1]>>>>

\* faulty variant of fit_transform: the points come out in reversed order
fit_transform_reversed(X, k, s) ==
    IF check_array(X) # NoError THEN Raise(check_array(X))
    ELSE IF k > Min(Len(X), Len(X[1])) THEN Raise(ValueErrorComponents)
    ELSE Ok([r \in 1..Len(X) |->
                [c \in 1..k |-> FracDot(Center(X)[Len(X) + 1 - r],
                                        Components(Center(X), s)[c])]])

\* PCA(n_components=k).fit_transform(X): the input is checked, k is compared
\* with min(n_samples, n_features), the rows are centred and projected on
\* the first k axes
fit_transform(X, k, s) ==
    IF check_array(X) # NoError THEN Raise(check_array(X))
    ELSE IF k > Min(Len(X), Len(X[1])) THEN Raise(ValueErrorComponents)
    ELSE Ok([r \in 1..Len(X) |->
                [c \in 1..k |-> FracDot(Center(X)[r], Components(Center(X), s)[c])]])

\* the lines the rows of one embeddings array are taken from
Lines ==
    {{<<0>>, <<1>>, <<-2>>},
     {<<0, 0>>, <<1, 0>>, <<3, 0>>},
     {<<0, 0>>, <<0, 1>>, <<0, -2>>},
     {<<0, 0>>, <<-3, 4>>, <<3, -4>>, <<-6, 8>>}}

SentenceArrays == UNION {SeqsUpTo(L, MaxSentences) : L \in Lines}

InitPCA ==
    /\ embeddings \in SentenceArrays
    /\ reduced = <<>>
    /\ more_embeddings = <<>>
    /\ similarity_matrix = <<>>
    /\ more_similarity = <<>>
    /\ anchor_examples = <<>>
    /\ unlabeled = <<>>
    /\ i = 1
    /\ printed = <<>>
    /\ pc = "pca"
    /\ raised = NoError
    /\ history = <<>>
    /\ calls = <<>>
    /\ eval_pred = <<>>
    /\ metrics = <<>>

\* pca = PCA(n_components=2); reduced = pca.fit_transform(embeddings)
ComputePCA ==
    /\ pc = "pca"
    /\ \E s \in {1, -1} : \E r \in {fit_transform(embeddings, n_components, s)} :
       IF r.err # NoError
       THEN /\ pc' = "raised"
            /\ raised' = r.err
            /\ UNCHANGED reduced
       ELSE /\ reduced' = r.val
            /\ pc' = "done"
            /\ UNCHANGED raised
    /\ UNCHANGED <<anchor_examples, unlabeled, i, printed, embeddings, more_embeddings,
                   similarity_matrix, more_similarity, history, calls, eval_pred,
                   metrics>>

NextPCA == ComputePCA

SpecPCA == InitPCA /\ [][NextPCA]_vars

-----------------------------------------------------------------------------
(* unnamed/part_001 (the fine-tuning script): compute_metrics.               *)
(* predictions is an array of one row of logits per evaluation example,      *)
(* labels the array of their class indices; indices start at 0 as in numpy.  *)
(* The evaluation set is the test part of train_test_split and has at least  *)
(* one row.                                                                  *)

\* the classes of examples["label"]: 0, 1, 2
num_labels == 3

RECURSIVE ArgmaxFromLast(_, _, _)
\* faulty variant of ArgmaxFrom: a later entry equal to the maximum replaces
\* the current index
ArgmaxFromLast(row, k, best) ==
    IF k > Len(row) THEN best - 1
    ELSE ArgmaxFromLast(row, k + 1, IF row[k] >= row[best] THEN k ELSE best)

RECURSIVE ArgmaxFrom(_, _, _)
\* the scan of np.argmax over one row: a later entry replaces the current
\* index only if it is greater; returns the 0-based index
ArgmaxFrom(row, k, best) ==
    IF k > Len(row) THEN best - 1
    ELSE ArgmaxFrom(row, k + 1, IF row[k] > row[best] THEN k ELSE best)

\* np.argmax(predictions, axis=1)
np_argmax(predictions) ==
    [r \in 1..Len(predictions) |-> ArgmaxFrom(predictions[r], 2, 1)]

\* (predictions == labels): the element-wise comparison, True as 1
EqualElements(a, b) == [r \in 1..Len(a) |-> IF a[r] = b[r] THEN One ELSE Zero]

\* compute_metrics(eval_pred)
compute_metrics(p) ==
    LET predictions == np_argmax(p[1])
        labels == p[2]
    IN  [accuracy |-> np_mean(EqualElements(predictions, labels))]

Logits == [1..num_labels -> {0, 1}]

InitMetrics ==
    /\ \E n \in 1..MaxEval :
          eval_pred \in {<<p, l>> : p \in [1..n -> Logits],
                                    l \in [1..n -> 0..(num_labels - 1)]}
    /\ metrics = <<>>
    /\ reduced = <<>>
    /\ embeddings = <<>>
    /\ more_embeddings = <<>>
    /\ similarity_matrix = <<>>
    /\ more_similarity = <<>>
    /\ anchor_examples = <<>>
    /\ unlabeled = <<>>
    /\ i = 1
    /\ printed = <<>>
    /\ pc = "compute_metrics"
    /\ raised = NoError
    /\ history = <<>>
    /\ calls = <<>>

\* the Trainer calls compute_metrics(eval_pred)
CallComputeMetrics ==
    /\ pc = "compute_metrics"
    /\ metrics' = compute_metrics(eval_pred)
    /\ pc' = "done"
    /\ UNCHANGED <<anchor_examples, unlabeled, i, printed, embeddings, more_embeddings,
                   similarity_matrix, more_similarity, raised, history, calls, reduced,
                   eval_pred>>

NextMetrics == CallComputeMetrics

SpecMetrics == InitMetrics /\ [][NextMetrics]_vars

-----------------------------------------------------------------------------
(* Reference definitions used by the properties *)

RECURSIVE DotInt(_, _)
DotInt(a, b) == IF a = <<>> THEN 0 ELSE a[1] * b[1] + DotInt(Tail(a), Tail(b))

IsZeroVec(v) == SumSq(v) = 0

\* dot(a, b) / (|a| * |b|), for non-zero a and b of equal length
CosineRef(a, b) == Frac(DotInt(a, b), ISqrt(SumSq(a)) * ISqrt(SumSq(b)))

\* the embedding of a text that the model accepts
Emb(text) == get_embedding(text).val

RECURSIVE CosineSumRef(_, _)
CosineSumRef(q, examples) ==
    IF examples = <<>> THEN Zero
    ELSE FracAdd(CosineRef(q, Emb(examples[1])), CosineSumRef(q, Tail(examples)))

AllNonZero(examples) == \A k \in 1..Len(examples) : ~IsZeroVec(Emb(examples[k]))

\* every label of the anchors has at least one example
EveryLabelHasExample(anchors) == \A k \in 1..Len(anchors) : Len(anchors[k][2]) >= 1

\* position of a key in a dict
KeyPos(d, key) == CHOOSE k \in 1..Len(d) : d[k][1] = key

-----------------------------------------------------------------------------
(* Properties of classify_text and of the loop (specification Spec) *)

\* C1: for every classification printed, when the anchors have at least one
\* label and every label has at least one example, the predicted label is a
\* label of the anchors whose score is greater than or equal to the score of
\* every label, and the score of each label times the number of its examples
\* equals the sum of dot(q, e) / (|q| * |e|) over its examples e (stated for
\* the labels where the query q and all the examples are non-zero vectors).
C1_MeanAndArgmax ==
    \A k \in 1..Len(printed) :
        LET p == printed[k]
            q == Emb(p.text)
        IN  (Len(anchor_examples) >= 1 /\ EveryLabelHasExample(anchor_examples)) =>
            /\ DictHas(p.scores, p.label)
            /\ \A j \in 1..Len(anchor_examples) :
                  LET label == anchor_examples[j][1]
                      examples == anchor_examples[j][2]
                  IN  /\ DictHas(p.scores, label)
                      /\ FracGE(DictGet(p.scores, p.label), DictGet(p.scores, label))
                      /\ (~IsZeroVec(q) /\ AllNonZero(examples)) =>
                            FracMul(DictGet(p.scores, label), <<Len(examples), 1>>)
                                = CosineSumRef(q, examples)

\* C1 witness: two labels, the first with two examples, all vectors non-zero,
\* the scores differ and the second label wins.
C1_Witness ==
    \E k \in 1..Len(printed) :
        /\ Len(anchor_examples) = 2
        /\ Len(anchor_examples[1][2]) = 2
        /\ Len(anchor_examples[2][2]) = 1
        /\ AllNonZero(anchor_examples[1][2]) /\ AllNonZero(anchor_examples[2][2])
        /\ ~IsZeroVec(Emb(printed[k].text))
        /\ printed[k].label = anchor_examples[2][1]
        /\ printed[k].scores[1][2] = <<1, 5>>
        /\ printed[k].scores[2][2] = <<1, 1>>

\* C2: when the predicted label's score is the maximum (no score is NaN),
\* no label inserted before the predicted one has a score equal to it: among
\* tied maximal labels the first in insertion order is returned.
C2_TieFirstInserted ==
    \A k \in 1..Len(printed) :
        LET p == printed[k]
            best == DictGet(p.scores, p.label)
        IN  (\A j \in 1..Len(p.scores) : FracGE(best, p.scores[j][2])) =>
            /\ DictKeys(p.scores) = DictKeys(anchor_examples)
            /\ \A j \in 1..Len(p.scores) :
                  j < KeyPos(p.scores, p.label) => ~FracEq(p.scores[j][2], best)

\* C2 witness: two labels with different example lists and exactly equal
\* scores, "Opposed" inserted before "Neutral", and "Opposed" is returned.
C2_Witness ==
    \E k \in 1..Len(printed) :
        /\ Len(anchor_examples) = 2
        /\ anchor_examples[1][1] = "Opposed"
        /\ anchor_examples[2][1] = "Neutral"
        /\ anchor_examples[1][2] # anchor_examples[2][2]
        /\ FracEq(printed[k].scores[1][2], printed[k].scores[2][2])
        /\ printed[k].label = "Opposed"

\* C3: with an anchors dict of zero labels nothing is ever printed (no label,
\* no scores), and once the loop has called classify_text on a text the model
\* embeds, the run has ended with the error of max() on the empty scores.
C3_EmptyAnchorsFail ==
    anchor_examples = <<>> =>
        /\ printed = <<>>
        /\ i = 1
        /\ (pc # "loop" /\ unlabeled # <<>> /\ unlabeled[1] # NoneText) =>
              (pc = "raised" /\ raised = ValueErrorEmptyMax)

\* C3 witness: classify_text was called with empty anchors and raised.
C3_Witness ==
    /\ anchor_examples = <<>>
    /\ Len(unlabeled) = 2
    /\ pc = "raised"
    /\ raised = ValueErrorEmptyMax

\* C5 (the claim as stated): no classification runs against anchors in which
\* some label has an empty list of examples.
C5_EmptyLabelRejected ==
    printed # <<>> => EveryLabelHasExample(anchor_examples)

\* C10: the loop prints exactly one result per text, in input order: the k-th
\* line printed is the result of classify_text on the k-th text, the loop
\* position is one past the lines printed, a run that ends normally has
\* printed as many results as there are texts, and a run ends with an error
\* only at a text on which classify_text fails.
C10_OneResultPerQueryInOrder ==
    /\ Len(printed) = i - 1
    /\ Len(printed) <= Len(unlabeled)
    /\ \A k \in 1..Len(printed) :
          \A r \in {classify_text(unlabeled[k], anchor_examples)} :
              /\ r.err = NoError
              /\ printed[k] = [text |-> unlabeled[k], label |-> r.val[1], scores |-> r.val[2]]
    /\ pc = "done" => Len(printed) = Len(unlabeled)
    /\ pc = "raised" =>
          (i <= Len(unlabeled) /\ classify_text(unlabeled[i], anchor_examples).err = raised)

\* C10 witness: a finished run over two different texts with different results.
C10_Witness ==
    /\ pc = "done"
    /\ Len(printed) = 2
    /\ printed[1].text # printed[2].text
    /\ printed[1].label # printed[2].label

\* C11 (the claim as stated, for the behaviour the loop has without any
\* option): a batch that stops at a failing text fails as a whole, so that no
\* result of an earlier text has been delivered.
C11_FailFastAtomic ==
    (pc = "raised" /\ Len(anchor_examples) >= 1 /\ EveryLabelHasExample(anchor_examples)) =>
        printed = <<>>

\* C14: with anchors of exactly one label, every result printed carries that
\* label, whatever the text and whatever its score, and the loop fails only
\* on a text the embedding model rejects.
C14_SingleLabelAlwaysReturned ==
    Len(anchor_examples) = 1 =>
        /\ \A k \in 1..Len(printed) : printed[k].label = anchor_examples[1][1]
        /\ pc = "raised" => raised = EncodeError

\* C14 witness: one label that is not "Neutral", returned for a text whose
\* score is negative and for a text whose score is 0.
C14_Witness ==
    /\ Len(anchor_examples) = 1
    /\ anchor_examples[1][1] = "Opposed"
    /\ Len(printed) = 2
    /\ printed[1].label = "Opposed" /\ printed[1].scores[1][2] = <<-3, 5>>
    /\ printed[2].label = "Opposed" /\ printed[2].scores[1][2] = Zero

\* C16: the scores of every result printed have exactly the labels of the
\* anchors as their keys, each once.
C16_ScoreKeysAreLabels ==
    \A k \in 1..Len(printed) :
        /\ Len(printed[k].scores) = Len(anchor_examples)
        /\ {printed[k].scores[j][1] : j \in 1..Len(printed[k].scores)}
              = {anchor_examples[j][1] : j \in 1..Len(anchor_examples)}

\* C16 witness: two labels with examples and different scores, both present
\* in the scores of the result.
C16_Witness ==
    \E k \in 1..Len(printed) :
        /\ Len(anchor_examples) = 2
        /\ EveryLabelHasExample(anchor_examples)
        /\ Len(printed[k].scores) = 2
        /\ printed[k].scores[1][1] # printed[k].scores[2][1]
        /\ FracGT(printed[k].scores[1][2], printed[k].scores[2][2])

\* C26: the label of every result printed is a key of anchor_examples,
\* whatever the scores are (NaN for a label without examples included) and
\* whatever the order of the labels.
C26_LabelIsAnAnchorKey ==
    \A k \in 1..Len(printed) :
        \E j \in 1..Len(anchor_examples) : printed[k].label = anchor_examples[j][1]

\* C26 witness: the first of two labels has no example, its score is NaN,
\* the second has a score above 0, and the first label is the one returned.
C26_Witness ==
    \E k \in 1..Len(printed) :
        /\ Len(anchor_examples) = 2
        /\ anchor_examples[1][2] = <<>>
        /\ IsNaN(printed[k].scores[1][2])
        /\ FracGT(printed[k].scores[2][2], Zero)
        /\ printed[k].label = anchor_examples[1][1]

-----------------------------------------------------------------------------
(* Properties of repeated runs of the loop (specification SpecRerun) *)

\* every result printed by an earlier run or by the current one
AllResults ==
    {printed[k] : k \in 1..Len(printed)}
        \cup UNION {{history[h].printed[k] : k \in 1..Len(history[h].printed)} :
                    h \in 1..Len(history)}

IsPrefix(s, t) == Len(s) <= Len(t) /\ \A k \in 1..Len(s) : s[k] = t[k]

C13_RerunSameResults ==
    /\ Len(printed) = i - 1
    /\ \A h \in 1..Len(history) :
          /\ IsPrefix(printed, history[h].printed)
          /\ pc \in {"done", "raised"} =>
                (printed = history[h].printed /\ raised = history[h].raised)

\* C13 witness: the second run of a batch of two texts has ended after
\* printing two different results.
C13_Witness ==
    /\ Len(history) = 1
    /\ pc = "done"
    /\ Len(printed) = 2
    /\ printed[1].label # printed[2].label

\* C21: no step of the loop, in a first or a repeated run, ending normally
\* or with an exception, changes anchor_examples: its labels, their order
\* and their example lists stay what they were at construction.
C21_AnchorsNeverMutated == [][anchor_examples' = anchor_examples]_vars

\* C21 witness: a second run over two labels has printed a result and then
\* failed, after a first run that did the same.
C21_Witness ==
    /\ Len(history) = 1
    /\ Len(history[1].printed) >= 1
    /\ history[1].raised = EncodeError
    /\ pc = "raised"
    /\ Len(printed) >= 1
    /\ Len(anchor_examples) = 2

-----------------------------------------------------------------------------
(* Properties of a failing embedding model (specification SpecProvider) *)

\* classify_text(text, anchors) hands the model an input it rejects
EmbedFails(text, anchors) ==
    \/ text = NoneText
    \/ \E k \in 1..Len(anchors) : \E e \in 1..Len(anchors[k][2]) :
          anchors[k][2][e] = NoneText

\* C25: a call of classify_text in which model.encode raises ends the cell
\* with that very exception, and nothing is printed for the call: no label
\* and no scores come back from it.
C25_ProviderErrorPropagates ==
    \A k \in 1..Len(unlabeled) :
        EmbedFails(unlabeled[k], anchor_examples) =>
            /\ i <= k
            /\ Len(printed) < k
            /\ (i = k /\ pc # "loop") => (pc = "raised" /\ raised = EncodeError)

\* C25 witness: the model rejects the example of the second label, after
\* the score of the first label has been computed from a text and an
\* example it accepts.
C25_Witness ==
    /\ pc = "raised"
    /\ raised = EncodeError
    /\ unlabeled = <<"x", "c">>
    /\ anchor_examples[1][2][1] = "c"
    /\ anchor_examples[2][2][1] = NoneText
    /\ i = 1
    /\ printed = <<>>

-----------------------------------------------------------------------------
(* Properties of concurrent calls (specification SpecConcurrent) *)

\* C22: under every interleaving of the statements of two classify_text
\* calls over the same anchors, a call that has ended has returned (or
\* raised) what the same call does when executed alone, and the scores a
\* call holds midway are those of its own text for the labels it has passed.
C22_ConcurrentCallsAsAlone ==
    \A t \in DOMAIN calls :
        /\ calls[t].pc \in {"returned", "raised"} =>
              calls[t].ret = classify_text(calls[t].text, anchor_examples)
        /\ calls[t].pc = "scores" =>
              Ok(calls[t].scores) =
                  ScoresLoop(calls[t].text_vec,
                             SubSeq(anchor_examples, 1, calls[t].k - 1), <<>>)

\* C22 witness: t2 has returned while t1, classifying another text, is
\* between two iterations of its loop, and holds a score that differs from
\* the one t2 returned for the same label.
C22_Witness ==
    /\ pc = "threads"
    /\ Len(anchor_examples) = 2
    /\ calls["t1"].text = "x" /\ calls["t2"].text = "c"
    /\ calls["t2"].pc = "returned"
    /\ calls["t1"].pc = "scores" /\ calls["t1"].k = 2
    /\ calls["t1"].scores[1][2] # calls["t2"].ret.val[2][1][2]

-----------------------------------------------------------------------------
(* Properties of the two-label scenario (specification SpecScenario) *)

\* b is k * a for some k > 0 (vectors of length 2)
IsPositiveMultiple(a, b) == a[1] * b[2] = a[2] * b[1] /\ DotInt(a, b) > 0

\* C15: with anchors {"Supportive": [v1], "Opposed": [v2]}, v1 and v2
\* non-zero, every result printed for a text whose embedding equals v1 has
\* label "Supportive" and score 1 for "Supportive" (in exact arithmetic).
C15_QueryEqualsFirstAnchor ==
    \A k \in 1..Len(printed) :
        Emb(printed[k].text) = Emb(anchor_examples[1][2][1]) =>
            /\ printed[k].label = "Supportive"
            /\ DictGet(printed[k].scores, "Supportive") = One

\* C15 witness: v2 is a positive multiple of v1 and different from it, the
\* text is v1, both scores are 1 and "Supportive" is returned.
C15_Witness ==
    \E k \in 1..Len(printed) :
        /\ anchor_examples[1][2][1] = "c"
        /\ anchor_examples[2][2][1] = "cc"
        /\ printed[k].text = "c"
        /\ printed[k].label = "Supportive"
        /\ DictGet(printed[k].scores, "Supportive") = One
        /\ DictGet(printed[k].scores, "Opposed") = One

\* C20: two texts whose embeddings are positive multiples of one another get
\* the same scores (each score is here the cosine of the text and one
\* example) and the same label.
C20_ScaleInvariant ==
    \A j, k \in 1..Len(printed) :
        IsPositiveMultiple(Emb(printed[j].text), Emb(printed[k].text)) =>
            /\ printed[j].scores = printed[k].scores
            /\ printed[j].label = printed[k].label

\* C20 witness: "c" and "cc" (twice the embedding of "c") classified in one
\* run against "x" and "c", with a score that is neither 0 nor 1.
C20_Witness ==
    /\ Len(printed) = 2
    /\ printed[1].text = "c" /\ printed[2].text = "cc"
    /\ anchor_examples[1][2][1] = "x"
    /\ anchor_examples[2][2][1] = "c"
    /\ printed[2].scores = <<<<"Supportive", (<<-3, 5>>)>>, <<"Opposed", One>>>>
    /\ printed[2].label = "Opposed"

-----------------------------------------------------------------------------
(* Properties of cosine_similarity (specification SpecSimilarity) *)

HasZeroRow(X) == \E r \in 1..Len(X) : IsZeroVec(X[r])

\* the error of the pairwise computation on one row of X and one row of Y
PairErr(a, b) == cosine_similarity(<<a>>, <<b>>).err

\* R has one row per row of X and one entry per row of Y in each row
FullMatrix(R, X, Y) == Len(R) = Len(X) /\ \A r \in 1..Len(R) : Len(R[r]) = Len(Y)

\* the cell that computes cosine_similarity(X, Y) has run and left R
AllOrNothing(ran, R, X, Y) ==
    ran =>
        /\ R = <<>> \/ FullMatrix(R, X, Y)
        /\ \A r \in 1..Len(X) : \A c \in 1..Len(Y) :
              PairErr(X[r], Y[c]) # NoError =>
                  (R = <<>> /\ pc = "raised" /\ raised = PairErr(X[r], Y[c]))
        /\ (X # <<>> /\ Y # <<>>
              /\ \A r \in 1..Len(X) : \A c \in 1..Len(Y) : PairErr(X[r], Y[c]) = NoError) =>
                  FullMatrix(R, X, Y)

\* C4 (the claim as stated): a zero vector among the inputs makes the
\* computation fail, so that no similarity value is ever returned for it.
C4_ZeroVectorFails ==
    HasZeroRow(embeddings) => similarity_matrix = <<>>

\* C6: when the rows of more_embeddings and of embeddings have different
\* lengths, cosine_similarity(more_embeddings, embeddings) returns nothing,
\* and the run ends with the incompatible-dimension error.
C6_DimensionMismatchFails ==
    (embeddings # <<>> /\ more_embeddings # <<>>
        /\ Len(more_embeddings[1]) # Len(embeddings[1])) =>
            /\ more_similarity = <<>>
            /\ pc \in {"raised", "done"} => (pc = "raised" /\ raised = ValueErrorDimension)

\* C6 witness: one vector of length 1 against one vector of length 2.
C6_Witness ==
    /\ Len(more_embeddings) = 1 /\ Len(embeddings) = 1
    /\ Len(more_embeddings[1]) = 1 /\ Len(embeddings[1]) = 2
    /\ pc = "raised"
    /\ raised = ValueErrorDimension
    /\ more_similarity = <<>>

\* C7: each of the two similarity cells leaves either no matrix or a matrix
\* with an entry for every pair (rows[r], cols[c]); if the pairwise
\* computation fails on some pair, the cell leaves no matrix and the run ends
\* with that pair's error; if it fails on no pair, every entry is there.
C7_NoPartialMatrix ==
    /\ AllOrNothing(pc # "similarity_matrix", similarity_matrix, embeddings, embeddings)
    /\ AllOrNothing(pc \in {"done", "raised"} /\ similarity_matrix # <<>>,
                    more_similarity, more_embeddings, embeddings)

\* C7 witness: the second cell failed on 2 x 2 pairs of incompatible rows
\* after the first cell returned its full 2 x 2 matrix.
C7_Witness ==
    /\ Len(more_embeddings) = 2 /\ Len(embeddings) = 2
    /\ pc = "raised"
    /\ raised = ValueErrorDimension
    /\ FullMatrix(similarity_matrix, embeddings, embeddings)
    /\ more_similarity = <<>>

\* the entries of R for the pairs of non-zero rows are the cosines
EntriesAreCosines(R, X, Y) ==
    \A r \in 1..Len(R) : \A c \in 1..Len(R[r]) :
        (~IsZeroVec(X[r]) /\ ~IsZeroVec(Y[c])) => R[r][c] = CosineRef(X[r], Y[c])

\* C8: a matrix returned by cosine_similarity(rows, cols) has |rows| rows of
\* |cols| entries, and its entry (r, c) is dot / (norm * norm) of rows[r]
\* and cols[c] (stated for the pairs of non-zero vectors).
C8_MatrixEntries ==
    /\ more_similarity # <<>> =>
          /\ FullMatrix(more_similarity, more_embeddings, embeddings)
          /\ EntriesAreCosines(more_similarity, more_embeddings, embeddings)
    /\ similarity_matrix # <<>> =>
          /\ FullMatrix(similarity_matrix, embeddings, embeddings)
          /\ EntriesAreCosines(similarity_matrix, embeddings, embeddings)

\* C8 witness: rows and cols are different sequences of different lengths
\* and the matrix holds a cosine that is neither 0 nor 1 nor -1.
C8_Witness ==
    /\ pc = "done"
    /\ Len(more_embeddings) = 1 /\ Len(embeddings) = 2
    /\ more_embeddings[1] = <<-3, 4>>
    /\ embeddings = <<<<1, 0>>, <<0, 1>>>>
    /\ more_similarity = <<<<(<<-3, 5>>), (<<4, 5>>)>>>>

\* C9: for embeddings without a zero row, cosine_similarity(embeddings) is
\* square, symmetric, and its diagonal entries are all 1.
C9_SelfSimilarity ==
    (similarity_matrix # <<>> /\ ~HasZeroRow(embeddings)) =>
        /\ FullMatrix(similarity_matrix, embeddings, embeddings)
        /\ \A r, c \in 1..Len(similarity_matrix) :
              similarity_matrix[r][c] = similarity_matrix[c][r]
        /\ \A r \in 1..Len(similarity_matrix) : similarity_matrix[r][r] = One

\* C9 witness: two different non-zero rows, neither of norm 1 both, with an
\* off-diagonal entry different from the diagonal.
C9_Witness ==
    /\ embeddings = <<<<-3, 4>>, <<1, 0>>>>
    /\ similarity_matrix = <<<<One, (<<-3, 5>>)>>, <<(<<-3, 5>>), One>>>>

\* every entry of R lies in [-1, 1]
EntriesInRange(R) ==
    \A r \in 1..Len(R) : \A c \in 1..Len(R[r]) :
        FracGE(One, R[r][c]) /\ FracGE(R[r][c], Frac(-1, 1))

\* C17: every cosine computed by cosine_similarity for vectors of equal
\* dimension lies in the closed interval [-1, 1].
C17_CosineInRange ==
    /\ EntriesInRange(similarity_matrix)
    /\ EntriesInRange(more_similarity)

\* C17 witness: both ends of the interval and a value strictly inside occur
\* among the cosines of non-zero vectors.
C17_Witness ==
    /\ pc = "done"
    /\ embeddings = <<<<-3, 4>>, <<3, -4>>>>
    /\ more_embeddings = <<<<0, 1>>>>
    /\ similarity_matrix = <<<<One, Frac(-1, 1)>>, <<Frac(-1, 1), One>>>>
    /\ more_similarity = <<<<(<<4, 5>>), (<<-4, 5>>)>>>>

\* C18: the cosine of a non-zero vector with itself is 1: where a row of
\* more_embeddings equals a row of embeddings, the entry of more_similarity
\* for the pair is 1.
C18_CosineWithItself ==
    \A r \in 1..Len(more_similarity) : \A c \in 1..Len(more_similarity[r]) :
        (more_embeddings[r] = embeddings[c] /\ ~IsZeroVec(embeddings[c])) =>
            more_similarity[r][c] = One

\* C18 witness: a vector of norm 5 occurs in both arrays at different
\* positions.
C18_Witness ==
    /\ pc = "done"
    /\ more_embeddings = <<<<-3, 4>>>>
    /\ embeddings = <<<<1, 0>>, <<-3, 4>>>>
    /\ more_similarity[1][2] = One
    /\ more_similarity[1][1] # One

\* C19: cosine(a, b) = cosine(b, a) for non-zero a and b, the two cosines
\* coming from two calls with the vectors in exchanged argument positions:
\* a as a row of the first argument in more_similarity, b as a row of the
\* first argument in similarity_matrix.
C19_Symmetric ==
    (more_similarity # <<>> /\ ~HasZeroRow(embeddings)) =>
        \A r \in 1..Len(more_similarity) : \A c, k \in 1..Len(embeddings) :
            more_embeddings[r] = embeddings[k] =>
                more_similarity[r][c] = similarity_matrix[c][k]

\* C19 witness: a and b are different vectors of different norms and their
\* cosine is neither 0 nor 1.
C19_Witness ==
    /\ pc = "done"
    /\ more_embeddings = <<<<-3, 4>>>>
    /\ embeddings = <<<<-3, 4>>, <<1, 0>>>>
    /\ more_similarity[1][2] = <<-3, 5>>
    /\ similarity_matrix[2][1] = <<-3, 5>>

-----------------------------------------------------------------------------
(* Properties of the PCA cell (specification SpecPCA) *)

\* squared Euclidean distance of two rational vectors
SqDist(a, b) ==
    FracSum([k \in 1..Len(a) |->
                FracMul(FracAdd(a[k], FracNeg(b[k])), FracAdd(a[k], FracNeg(b[k])))])

AsFracs(v) == [k \in 1..Len(v) |-> Frac(v[k], 1)]

\* C23: fit_transform returns one point of n_components coordinates per
\* embedding, in the order of the embeddings: the points are centred on the
\* origin and the distance of the points i and j is the distance of the
\* embeddings i and j (the rows lie on one line, so no distance is lost).
C23_OnePointPerEmbeddingInOrder ==
    pc = "done" =>
        /\ Len(reduced) = Len(embeddings)
        /\ \A r \in 1..Len(reduced) : Len(reduced[r]) = n_components
        /\ \A c \in 1..n_components :
              FracSum([r \in 1..Len(reduced) |-> reduced[r][c]]) = Zero
        /\ \A r, q \in 1..Len(reduced) :
              SqDist(reduced[r], reduced[q]) =
                  SqDist(AsFracs(embeddings[r]), AsFracs(embeddings[q]))

\* C23 witness: three different embeddings at different distances from one
\* another, projected to three different points.
C23_Witness ==
    /\ pc = "done"
    /\ embeddings = <<<<-3, 4>>, <<0, 0>>, <<-6, 8>>>>
    /\ Len(reduced) = 3
    /\ reduced[2][1] # Zero
    /\ SqDist(reduced[1], reduced[2]) # SqDist(reduced[2], reduced[3])

\* C24: when n_components does not satisfy 1 <= n_components <=
\* min(D, count - 1), fit_transform raises and no point is returned.
C24_InsufficientSamplesRejected ==
    (/\ pc \in {"done", "raised"}
     /\ \/ Len(embeddings) = 0
        \/ n_components < 1
        \/ n_components > Min(Len(embeddings[1]), Len(embeddings) - 1))
    => (pc = "raised" /\ raised # NoError /\ reduced = <<>>)

-----------------------------------------------------------------------------
(* Properties of compute_metrics (specification SpecMetrics) *)

\* the lowest 0-based index at which row has its maximum
FirstMaximum(row) ==
    CHOOSE j \in 0..(Len(row) - 1) :
        /\ \A q \in 1..Len(row) : row[j + 1] >= row[q]
        /\ \A q \in 1..j : row[q] < row[j + 1]

\* the rows of eval_pred whose first maximum is at the row's label
CorrectRows ==
    {r \in 1..Len(eval_pred[1]) : FirstMaximum(eval_pred[1][r]) = eval_pred[2][r]}

\* C27: the accuracy returned by compute_metrics is the number of rows whose
\* first maximum is at the index of the row's label, divided by the number
\* of rows; it lies in [0, 1]; on a tie the lowest index is the prediction.
C27_AccuracyOfFirstMaximum ==
    pc = "done" =>
        /\ metrics.accuracy = Frac(Cardinality(CorrectRows), Len(eval_pred[1]))
        /\ FracGE(metrics.accuracy, Zero)
        /\ FracGE(One, metrics.accuracy)

\* C27 witness: of two rows with tied maxima, the one labelled with the
\* lowest index of the maximum counts as correct, the one labelled with the
\* highest does not: the accuracy is 1/2.
C27_Witness ==
    /\ pc = "done"
    /\ eval_pred = <<<<(<<0, 1, 1>>), (<<0, 1, 1>>)>>, <<1, 2>>>>
    /\ metrics.accuracy = <<1, 2>>

====
